---- MODULE Spec2Model ----
(***************************************************************************)
(* Model of utils/retry.py: the decorator retry_on_exception and the       *)
(* wrapper it returns, together with the exception MaxRetriesExceeded.     *)
(*                                                                         *)
(* One wrapped function (one policy) is called by the callers in           *)
(* Callers.  Every logical call has its own local state (attempt, wait,    *)
(* exc); the policy captured by the closure is never written.              *)
(*                                                                         *)
(* Durations are kept exactly, as integers in hundredths of a time unit,   *)
(* so that the jitter factor 1 + u, u drawn with a resolution of one       *)
(* percent, needs no fractions.                                            *)
(***************************************************************************)
EXTENDS Integers, Sequences, FiniteSets, TLC

\* ------------------------------------------------------------------ bounds
MaxRetriesBound == 3
MaxCalls == 2

\* ----------------------------------------------------------- input domains
Callers == {1, 2}

\* what a caller passes as first positional argument: nothing, an object
\* without a `logger` attribute (a str id), an object whose `logger` is None,
\* or one of two instances carrying their own logger
ArgKinds == {"no_args", "plain", "logger_none", "inst_A", "inst_B"}

\* max_retries is not validated by the decorator: -1 stands for the negative ones
MaxRetriesValues == -1 .. MaxRetriesBound

\* max_retries below zero, which the decorator accepts as well
NegativeRetries == {-3, -2, -1}

\* backoff_factor is not validated either (in time units)
BackoffFactors == {-1, 1, 2}

FuncNames == {"_call", "_fetch"}

\* results a wrapped operation may return; None is an ordinary value
Values == {"ok", "None"}

\* the classes of the errors the wrapped operation raises
RaisedKinds == {"HttpError", "ValueError", "KeyboardInterrupt"}

\* the tuples of classes given as `exceptions`; (HttpError,) is the default
ExceptionTuples == {{"HttpError"}, {"HttpError", "ValueError"}, {"Exception"}, {}}

\* the draws of random.uniform(-0.1, 0.1), in percent: both ends and one inside
JitterDraws == {-10, 5, 10}

\* ------------------------------------------------------- exception classes
\* direct base class of each class
BaseClass(k) ==
    CASE k = "HttpError" -> "Exception"
      [] k = "ValueError" -> "Exception"
      [] k = "MaxRetriesExceeded" -> "Exception"
      [] k = "Exception" -> "BaseException"
      [] k = "KeyboardInterrupt" -> "BaseException"
      [] OTHER -> "object"

RECURSIVE IsSubclass(_, _)
IsSubclass(k, base) ==
    IF k = base THEN TRUE
    ELSE IF k = "object" THEN FALSE
    ELSE IsSubclass(BaseClass(k), base)

\* the retryable class written into the handler: except HttpError as exc
CatchesHttpErrorOnly(excs, k) == IsSubclass(k, "HttpError")

\* `except exceptions as exc` catches an instance of any listed class
Catches(excs, k) == \E base \in excs : IsSubclass(k, base)

\* the error raised by the n-th invocation of the wrapped operation
OpError(k, n) == [kind |-> k, at |-> n]

\* MaxRetriesExceeded raised without `from exc`
MaxRetriesExceededNoCause(name, retries, cause) ==
    [kind |-> "MaxRetriesExceeded",
     msg |-> [name |-> name, text |-> "failed after", retries |-> retries],
     cause |-> [kind |-> "none"]]

\* MaxRetriesExceeded(f"{func.__name__} failed after {max_retries} retries") from exc
MaxRetriesExceeded(name, retries, cause) ==
    [kind |-> "MaxRetriesExceeded",
     msg |-> [name |-> name, text |-> "failed after", retries |-> retries],
     cause |-> cause]

\* time.sleep rejects a negative length
SleepError == [kind |-> "ValueError", at |-> 0]

NoError == [kind |-> "none"]

\* ------------------------------------------------------------------- state
VARIABLES
    max_retries,      \* policy: retries after the initial attempt
    backoff_factor,   \* policy: base of the exponential backoff
    exceptions,       \* policy: classes caught and retried
    jitter,           \* policy: whether the wait is randomised
    func_name,        \* func.__name__
    pc,               \* per caller: START, ATTEMPT, WAIT, DONE, FAILED
    attempt,          \* per caller: the wrapper's local `attempt`
    wait,             \* per caller: the wrapper's local `wait` (in hundredths)
    exc,              \* per caller: the error bound by `except ... as exc`
    result,           \* per caller: what the wrapper returned or raised
    invocations,      \* per caller: calls of func made by this logical call
    outcomes,         \* per caller: what each invocation of func did
    delays,           \* per caller: the lengths time.sleep was called with
    slept,            \* per caller: number of time.sleep calls that returned
    events,           \* per caller: records handed to the logger
    call_no,          \* per caller: number of logical calls started
    active,           \* the callers that run
    arg_kinds,        \* the first arguments the callers pass
    first_arg,        \* per caller: args of this logical call
    logger,           \* per caller: the wrapper's local `logger`
    sinks,            \* per caller: the logger each record of `events` went to
    passed,           \* per caller: the first argument func got at each invocation
    method,           \* per caller: the YoutubeManager method that runs
    bpc,              \* per caller: none, idle, running, returned, raised
    bresult,          \* per caller: what the YoutubeManager method gave back
    max_results,      \* per caller: the max_results the listing was called with
    remote_total,     \* per caller: how many records the remote holds for the listing
    items,            \* per caller: the local `items`, one range of remote positions per page
    next_page_token,  \* per caller: the local `next_page_token`
    requests,         \* per caller: the page requests issued, as [token, limit]
    outer,            \* per caller: the convenience method that runs
    opc,              \* per caller: none, channel, listing, deleting, returned, raised
    oresult,          \* per caller: what the convenience method gave back
    target,           \* per caller: the remote positions of the records looked for
    found,            \* per caller: the id the lookup gave, or "None"
    applied           \* per caller: the invocations whose insert the remote applied

policy == <<max_retries, backoff_factor, exceptions, jitter, func_name>>
locals == <<pc, attempt, wait, exc, result>>
observed == <<invocations, outcomes, delays, slept, events>>
config == <<active, arg_kinds>>
binding == <<first_arg, logger, sinks, passed>>
business == <<method, bpc, bresult>>
pages == <<max_results, remote_total, items, next_page_token, requests>>
convenience == <<outer, opc, oresult, target, found, applied>>
vars == <<policy, config, locals, observed, call_no, binding, business, pages, convenience>>

Pending == [tag |-> "pending"]
Returned(v) == [tag |-> "return", value |-> v]
Raised(e) == [tag |-> "raise", error |-> e]

\* the exponent taken as attempt instead of attempt - 1
BackoffFromTwo(b, n) == b * (2 ^ n) * 100

\* wait = backoff_factor * (2 ** (attempt - 1))
Backoff(b, n) == b * (2 ^ (n - 1)) * 100

\* the draw taken twice as wide: random.uniform(-0.2, 0.2)
JitteredWide(w, u) == (w * (100 + 2 * u)) \div 100

\* the `1 +` left out: wait = wait * random.uniform(-0.1, 0.1)
JitteredNoBase(w, u) == (w * u) \div 100

\* wait = wait * (1 + random.uniform(-0.1, 0.1)), u in percent
Jittered(w, u) == (w * (100 + u)) \div 100

\* the budget counted one short: attempt >= max_retries
ExhaustedEarly(n, r) == n >= r

\* the budget counted one long: attempt > max_retries + 1
ExhaustedLate(n, r) == n > r + 1

\* the budget taken as abs(max_retries)
ExhaustedAbs(n, r) == n > (IF r < 0 THEN -r ELSE r)

\* if attempt > max_retries: give up
Exhausted(n, r) == n > r

\* the retry logged with logger.error instead of logger.warning
WarningEventAtErrorLevel(name, e, w, n, r) ==
    [level |-> "ERROR", name |-> name, exc |-> e, wait |-> w,
     attempt |-> n, max_retries |-> r]

\* the warning reporting attempt - 1, as the error event does
WarningEventPreviousAttempt(name, e, w, n, r) ==
    [level |-> "WARNING", name |-> name, exc |-> e, wait |-> w,
     attempt |-> n - 1, max_retries |-> r]

WarningEvent(name, e, w, n, r) ==
    [level |-> "WARNING", name |-> name, exc |-> e, wait |-> w,
     attempt |-> n, max_retries |-> r]

ErrorEvent(name, n, e) ==
    [level |-> "ERROR", name |-> name, attempts |-> n, exc |-> e]

\* getattr(possible_self, "logger", None)
LoggerAttr(a) ==
    CASE a = "inst_A" -> "logger_A"
      [] a = "inst_B" -> "logger_B"
      [] OTHER -> "None"

\* the first argument never looked at: always the module's logger
ResolveLoggerModuleOnly(a) == "module_logger"

\* logger = None; if args: logger = getattr(args[0], "logger", None);
\* if logger is None: logger = logging.getLogger(func.__module__)
ResolveLogger(a) ==
    LET l == IF a = "no_args" THEN "None" ELSE LoggerAttr(a)
    IN IF l = "None" THEN "module_logger" ELSE l

\* ---------------------------------------------- the methods of YoutubeManager
\* the methods that issue one remote call
GetMethods ==
    {"get_playlist_info", "get_user_channel", "get_channel_info", "get_video_info"}

InsertMethods ==
    {"create_playlist", "update_playlist", "add_video_to_playlist",
     "subscribe_to_channel"}

DeleteMethods == {"delete_playlist", "delete_playlist_item", "delete_subscription"}

RateMethods == {"like_video", "dislike_video", "unrate_video"}

Methods ==
    GetMethods \cup InsertMethods \cup DeleteMethods \cup RateMethods
        \cup {"post_comment"}

\* the remote call is made through a function decorated with @retry_on_exception()
Wrapped(m) == m \notin RateMethods

\* the remote call stands in try: ... except Exception: return <empty>
Guarded(m) == m # "post_comment"

\* what the except clause returns
Empty(m) == IF m \in DeleteMethods \cup RateMethods THEN "False" ELSE "{}"

\* what the method returns once the remote call returned response v
OnSuccess(m, v) ==
    IF m \in DeleteMethods \cup RateMethods THEN "True"
    ELSE IF m = "post_comment" THEN v
    ELSE IF v = "None" THEN "{}" ELSE "record"

\* ------------------------------------------------- the paginated listings
\* the methods that fetch page after page
ListingMethods ==
    {"get_user_playlists", "get_playlist_items", "get_comments",
     "list_subscriptions", "search_videos", "search_playlist"}

\* while len(items) < max_results (get_playlist_items: while True)
Bounded(m) == m # "get_playlist_items"

\* if max_results <= 0: return []
EarlyReturn(m) == m \notin {"get_playlist_items", "get_comments"}

\* the page request carries pageToken=page_token
PassesToken(m) == m \notin {"search_videos", "search_playlist"}

\* the except branch logs and falls through to the parsing of `items`
KeepsPages(m) == m \in {"get_user_playlists", "get_playlist_items", "list_subscriptions"}

\* the largest page asked for: min(remaining, 50), maxResults=50
PageSize == 50

\* the max_results a listing is called with
MaxResultsValues == {-1, 0, 2, 50, 60}

\* the numbers of records the remote may hold
RemoteTotals == {0, 3, 50, 51, 120}

\* where in the remote sequence the records looked for may stand
TargetSets == {{}, {2}, {2, 3}, {2, 51}, {51}}

\* the convenience methods built on a listing, and the listing each calls
OuterMethods == {"remove_video_from_playlist", "unsubscribe_from_channel"}

ListingOf(o) ==
    IF o = "remove_video_from_playlist" THEN "get_playlist_items" ELSE "list_subscriptions"

DeleteOf(o) ==
    IF o = "remove_video_from_playlist" THEN "delete_playlist_item" ELSE "delete_subscription"

\* response.get("nextPageToken") is None
NoToken == [tag |-> "None"]

\* the token of the page that starts after position n
Token(n) == [tag |-> "token", after |-> n]

\* the lookup gave None
NoId == [tag |-> "None"]

\* the id of the record at position p
Id(p) == [tag |-> "id", of |-> p]

Min(a, b) == IF a <= b THEN a ELSE b

\* len(items)
RECURSIVE Count(_)
Count(its) ==
    IF its = << >> THEN 0
    ELSE (its[1].hi - its[1].lo + 1) + Count(Tail(its))

\* what the remote answers to the page request q when it holds n records
Respond(q, n) ==
    LET offset == IF q.token = NoToken THEN 0 ELSE q.token.after
        k == IF n - offset < q.limit THEN n - offset ELSE q.limit
    IN [lo |-> offset + 1,
        hi |-> offset + k,
        next |-> IF offset + k < n THEN Token(offset + k) ELSE NoToken]

\* the loop keeps the last match instead of returning at the first
LastMatch(its, wanted) ==
    LET hits == {i \in 1 .. Len(its) : wanted \cap (its[i].lo .. its[i].hi) # {}}
    IN IF hits = {} THEN NoId
       ELSE LET i == CHOOSE j \in hits : \A h \in hits : j >= h
                ps == wanted \cap (its[i].lo .. its[i].hi)
            IN Id(CHOOSE p \in ps : \A r \in ps : p >= r)

\* for item in items: if item.get(...) == wanted: return its id
FirstMatch(its, wanted) ==
    LET hits == {i \in 1 .. Len(its) : wanted \cap (its[i].lo .. its[i].hi) # {}}
    IN IF hits = {} THEN NoId
       ELSE LET i == CHOOSE j \in hits : \A h \in hits : j <= h
                ps == wanted \cap (its[i].lo .. its[i].hi)
            IN Id(CHOOSE p \in ps : \A r \in ps : p <= r)

\* the wrapper runs for an active caller, called as such or under a method
\* of YoutubeManager whose remote call is decorated
InWrapper(c) ==
    /\ c \in active
    /\ \/ bpc[c] = "none"
       \/ bpc[c] = "running" /\ Wrapped(method[c])
       \/ bpc[c] = "fetching"

\* ----------------------------------------------------------------- actions
\* no logical call has been made yet
NoCallYet ==
    /\ pc = [c \in Callers |-> "START"]
    /\ attempt = [c \in Callers |-> 0]
    /\ wait = [c \in Callers |-> 0]
    /\ exc = [c \in Callers |-> NoError]
    /\ result = [c \in Callers |-> Pending]
    /\ invocations = [c \in Callers |-> 0]
    /\ outcomes = [c \in Callers |-> << >>]
    /\ delays = [c \in Callers |-> << >>]
    /\ slept = [c \in Callers |-> 0]
    /\ events = [c \in Callers |-> << >>]
    /\ call_no = [c \in Callers |-> 0]
    /\ first_arg = [c \in Callers |-> "unset"]
    /\ logger = [c \in Callers |-> "unset"]
    /\ sinks = [c \in Callers |-> << >>]
    /\ passed = [c \in Callers |-> << >>]

\* the wrapped function is called as such, not from a YoutubeManager method
NoBusiness ==
    /\ method = [c \in Callers |-> "none"]
    /\ bpc = [c \in Callers |-> "none"]
    /\ bresult = [c \in Callers |-> Pending]

\* no listing and no convenience method runs
NoListing ==
    /\ max_results = [c \in Callers |-> 0]
    /\ remote_total = [c \in Callers |-> 0]
    /\ items = [c \in Callers |-> << >>]
    /\ next_page_token = [c \in Callers |-> NoToken]
    /\ requests = [c \in Callers |-> << >>]
    /\ outer = [c \in Callers |-> "none"]
    /\ opc = [c \in Callers |-> "none"]
    /\ oresult = [c \in Callers |-> Pending]
    /\ target = [c \in Callers |-> {}]
    /\ found = [c \in Callers |-> NoId]
    /\ applied = [c \in Callers |-> {}]

\* any decoration the decorator accepts, one caller passing a plain argument
Init ==
    /\ max_retries \in MaxRetriesValues
    /\ backoff_factor \in BackoffFactors
    /\ exceptions \in ExceptionTuples
    /\ jitter \in BOOLEAN
    /\ func_name \in FuncNames
    /\ active = {1}
    /\ arg_kinds = {"plain"}
    /\ NoCallYet
    /\ NoBusiness
    /\ NoListing

\* `attempt` kept in the decorator: a later call counts on from the last one
CallCountsOn(c) ==
    /\ InWrapper(c)
    /\ pc[c] = "START"
    /\ call_no[c] < MaxCalls
    /\ call_no' = [call_no EXCEPT ![c] = @ + 1]
    /\ attempt' = [attempt EXCEPT ![c] = call_no[c] + 1]
    /\ invocations' = [invocations EXCEPT ![c] = @ + 1]
    /\ \E a \in arg_kinds :
        /\ first_arg' = [first_arg EXCEPT ![c] = a]
        /\ passed' = [passed EXCEPT ![c] = <<a>>]
        /\ logger' = [logger EXCEPT ![c] = ResolveLogger(a)]
    /\ pc' = [pc EXCEPT ![c] = "ATTEMPT"]
    /\ UNCHANGED <<policy, config, business, pages, convenience, sinks, wait, exc, result, outcomes, delays, slept, events>>

\* wrapper entered: attempt = 0, first pass of the loop up to the call of func
Call(c) ==
    /\ InWrapper(c)
    /\ pc[c] = "START"
    /\ call_no[c] < MaxCalls
    /\ call_no' = [call_no EXCEPT ![c] = @ + 1]
    /\ attempt' = [attempt EXCEPT ![c] = 0 + 1]
    /\ invocations' = [invocations EXCEPT ![c] = @ + 1]
    /\ \E a \in arg_kinds :
        /\ first_arg' = [first_arg EXCEPT ![c] = a]
        /\ passed' = [passed EXCEPT ![c] = <<a>>]
        /\ logger' = [logger EXCEPT ![c] = ResolveLogger(a)]
    /\ pc' = [pc EXCEPT ![c] = "ATTEMPT"]
    /\ UNCHANGED <<policy, config, business, pages, convenience, sinks, wait, exc, result, outcomes, delays, slept, events>>

\* func(*args, **kwargs) called without `return`: the wrapper returns None
FuncReturnsDropped(c) ==
    /\ InWrapper(c)
    /\ pc[c] = "ATTEMPT"
    /\ \E v \in Values :
        /\ outcomes' = [outcomes EXCEPT ![c] = Append(@, Returned(v))]
        /\ result' = [result EXCEPT ![c] = Returned("None")]
    /\ pc' = [pc EXCEPT ![c] = "DONE"]
    /\ UNCHANGED <<policy, config, business, pages, convenience, binding, attempt, wait, exc, invocations, delays, slept, events, call_no>>

\* func returned v: return func(*args, **kwargs)
FuncReturns(c) ==
    /\ InWrapper(c)
    /\ pc[c] = "ATTEMPT"
    /\ \E v \in Values :
        /\ outcomes' = [outcomes EXCEPT ![c] = Append(@, Returned(v))]
        /\ result' = [result EXCEPT ![c] = Returned(v)]
    /\ pc' = [pc EXCEPT ![c] = "DONE"]
    /\ UNCHANGED <<policy, config, business, pages, convenience, binding, attempt, wait, exc, invocations, delays, slept, events, call_no>>

\* every error retried: a non-listed error backs off like a listed one
FuncRaisesOtherRetried(c) ==
    /\ InWrapper(c)
    /\ pc[c] = "ATTEMPT"
    /\ \E k \in RaisedKinds :
        /\ ~Catches(exceptions, k)
        /\ outcomes' = [outcomes EXCEPT ![c] = Append(@, Raised(OpError(k, invocations[c])))]
        /\ IF Exhausted(attempt[c], max_retries)
           THEN /\ result' = [result EXCEPT ![c] = Raised(OpError(k, invocations[c]))]
                /\ pc' = [pc EXCEPT ![c] = "FAILED"]
                /\ UNCHANGED <<wait, delays>>
           ELSE /\ wait' = [wait EXCEPT ![c] = Backoff(backoff_factor, attempt[c])]
                /\ delays' = [delays EXCEPT ![c] = Append(@, Backoff(backoff_factor, attempt[c]))]
                /\ pc' = [pc EXCEPT ![c] = "WAIT"]
                /\ UNCHANGED result
    /\ UNCHANGED <<policy, config, business, pages, convenience, binding, attempt, exc, invocations, slept, events, call_no>>

\* `except Exception: return None`: the error is swallowed
FuncRaisesOtherSwallowed(c) ==
    /\ InWrapper(c)
    /\ pc[c] = "ATTEMPT"
    /\ \E k \in RaisedKinds :
        /\ ~Catches(exceptions, k)
        /\ outcomes' = [outcomes EXCEPT ![c] = Append(@, Raised(OpError(k, invocations[c])))]
        /\ result' = [result EXCEPT ![c] = Returned("None")]
    /\ pc' = [pc EXCEPT ![c] = "DONE"]
    /\ UNCHANGED <<policy, config, business, pages, convenience, binding, attempt, wait, exc, invocations, delays, slept, events, call_no>>

\* the propagated error also logged by the wrapper
FuncRaisesOtherLogged(c) ==
    /\ InWrapper(c)
    /\ pc[c] = "ATTEMPT"
    /\ \E k \in RaisedKinds :
        /\ ~Catches(exceptions, k)
        /\ outcomes' = [outcomes EXCEPT ![c] = Append(@, Raised(OpError(k, invocations[c])))]
        /\ result' = [result EXCEPT ![c] = Raised(OpError(k, invocations[c]))]
        /\ events' = [events EXCEPT ![c] =
                        Append(@, ErrorEvent(func_name, attempt[c] - 1, OpError(k, invocations[c])))]
    /\ sinks' = [sinks EXCEPT ![c] = Append(@, logger[c])]
    /\ pc' = [pc EXCEPT ![c] = "FAILED"]
    /\ UNCHANGED <<policy, config, business, pages, convenience, first_arg, logger, passed, attempt, wait, exc, invocations, delays, slept, call_no>>

\* func raised an error no listed class catches: it propagates
FuncRaisesOther(c) ==
    /\ InWrapper(c)
    /\ pc[c] = "ATTEMPT"
    /\ \E k \in RaisedKinds :
        /\ ~Catches(exceptions, k)
        /\ outcomes' = [outcomes EXCEPT ![c] = Append(@, Raised(OpError(k, invocations[c])))]
        /\ result' = [result EXCEPT ![c] = Raised(OpError(k, invocations[c]))]
    /\ pc' = [pc EXCEPT ![c] = "FAILED"]
    /\ UNCHANGED <<policy, config, business, pages, convenience, binding, attempt, wait, exc, invocations, delays, slept, events, call_no>>

\* func raised a caught error and attempt > max_retries
FuncRaisesExhausted(c) ==
    /\ InWrapper(c)
    /\ pc[c] = "ATTEMPT"
    /\ Exhausted(attempt[c], max_retries)
    /\ \E k \in RaisedKinds :
        /\ Catches(exceptions, k)
        /\ LET e == OpError(k, invocations[c]) IN
            /\ outcomes' = [outcomes EXCEPT ![c] = Append(@, Raised(e))]
            /\ exc' = [exc EXCEPT ![c] = e]
            /\ events' = [events EXCEPT ![c] =
                            Append(@, ErrorEvent(func_name, attempt[c] - 1, e))]
            /\ result' = [result EXCEPT ![c] =
                            Raised(MaxRetriesExceeded(func_name, max_retries, e))]
    /\ sinks' = [sinks EXCEPT ![c] = Append(@, logger[c])]
    /\ pc' = [pc EXCEPT ![c] = "FAILED"]
    /\ UNCHANGED <<policy, config, business, pages, convenience, first_arg, logger, passed, attempt, wait, invocations, delays, slept, call_no>>

\* func raised a caught error and a retry is left: warning, then time.sleep(wait)
FuncRaisesRetry(c) ==
    /\ InWrapper(c)
    /\ pc[c] = "ATTEMPT"
    /\ ~Exhausted(attempt[c], max_retries)
    /\ \E k \in RaisedKinds, u \in (IF jitter THEN JitterDraws ELSE {0}) :
        /\ Catches(exceptions, k)
        /\ LET e == OpError(k, invocations[c])
               w0 == Backoff(backoff_factor, attempt[c])
               w == IF jitter THEN Jittered(w0, u) ELSE w0
           IN
            /\ outcomes' = [outcomes EXCEPT ![c] = Append(@, Raised(e))]
            /\ exc' = [exc EXCEPT ![c] = e]
            /\ wait' = [wait EXCEPT ![c] = w]
            /\ events' = [events EXCEPT ![c] =
                            Append(@, WarningEvent(func_name, e, w, attempt[c], max_retries))]
            /\ delays' = [delays EXCEPT ![c] = Append(@, w)]
    /\ sinks' = [sinks EXCEPT ![c] = Append(@, logger[c])]
    /\ pc' = [pc EXCEPT ![c] = "WAIT"]
    /\ UNCHANGED <<policy, config, business, pages, convenience, first_arg, logger, passed, attempt, result, invocations, slept, call_no>>

\* `attempt += 1` left out of the loop
SleepReturnsSameAttempt(c) ==
    /\ InWrapper(c)
    /\ pc[c] = "WAIT"
    /\ wait[c] >= 0
    /\ invocations[c] <= MaxRetriesBound + 2
    /\ slept' = [slept EXCEPT ![c] = @ + 1]
    /\ invocations' = [invocations EXCEPT ![c] = @ + 1]
    /\ passed' = [passed EXCEPT ![c] = Append(@, first_arg[c])]
    /\ pc' = [pc EXCEPT ![c] = "ATTEMPT"]
    /\ UNCHANGED <<policy, config, business, pages, convenience, first_arg, logger, sinks, attempt, wait, exc, result, outcomes, delays, events, call_no>>

\* `attempt` kept in the decorator, one counter for all calls in flight
SleepReturnsSharedAttempt(c) ==
    /\ InWrapper(c)
    /\ pc[c] = "WAIT"
    /\ wait[c] >= 0
    /\ slept' = [slept EXCEPT ![c] = @ + 1]
    /\ attempt' = [d \in Callers |-> IF d \in active THEN attempt[d] + 1 ELSE attempt[d]]
    /\ invocations' = [invocations EXCEPT ![c] = @ + 1]
    /\ passed' = [passed EXCEPT ![c] = Append(@, first_arg[c])]
    /\ pc' = [pc EXCEPT ![c] = "ATTEMPT"]
    /\ UNCHANGED <<policy, config, business, pages, convenience, first_arg, logger, sinks, wait, exc, result, outcomes, delays, events, call_no>>

\* `attempt += 1` left out of the loop, followed up to the third invocation
SleepReturnsNoCount(c) ==
    /\ InWrapper(c)
    /\ pc[c] = "WAIT"
    /\ wait[c] >= 0
    /\ invocations[c] <= 2
    /\ slept' = [slept EXCEPT ![c] = @ + 1]
    /\ invocations' = [invocations EXCEPT ![c] = @ + 1]
    /\ passed' = [passed EXCEPT ![c] = Append(@, first_arg[c])]
    /\ pc' = [pc EXCEPT ![c] = "ATTEMPT"]
    /\ UNCHANGED <<policy, config, business, pages, convenience, first_arg, logger, sinks, attempt, wait, exc, result, outcomes, delays, events, call_no>>

\* the retry made without the caller's arguments: func()
SleepReturnsNoArgs(c) ==
    /\ InWrapper(c)
    /\ pc[c] = "WAIT"
    /\ wait[c] >= 0
    /\ slept' = [slept EXCEPT ![c] = @ + 1]
    /\ attempt' = [attempt EXCEPT ![c] = @ + 1]
    /\ invocations' = [invocations EXCEPT ![c] = @ + 1]
    /\ passed' = [passed EXCEPT ![c] = Append(@, "no_args")]
    /\ pc' = [pc EXCEPT ![c] = "ATTEMPT"]
    /\ UNCHANGED <<policy, config, business, pages, convenience, first_arg, logger, sinks, wait, exc, result, outcomes, delays, events, call_no>>

\* time.sleep(wait) returned: next pass of the loop up to the call of func
SleepReturns(c) ==
    /\ InWrapper(c)
    /\ pc[c] = "WAIT"
    /\ wait[c] >= 0
    /\ slept' = [slept EXCEPT ![c] = @ + 1]
    /\ attempt' = [attempt EXCEPT ![c] = @ + 1]
    /\ invocations' = [invocations EXCEPT ![c] = @ + 1]
    /\ passed' = [passed EXCEPT ![c] = Append(@, first_arg[c])]
    /\ pc' = [pc EXCEPT ![c] = "ATTEMPT"]
    /\ UNCHANGED <<policy, config, business, pages, convenience, first_arg, logger, sinks, wait, exc, result, outcomes, delays, events, call_no>>

\* time.sleep(wait) with wait < 0 raises ValueError inside the handler
SleepRaises(c) ==
    /\ InWrapper(c)
    /\ pc[c] = "WAIT"
    /\ wait[c] < 0
    /\ result' = [result EXCEPT ![c] = Raised(SleepError)]
    /\ pc' = [pc EXCEPT ![c] = "FAILED"]
    /\ UNCHANGED <<policy, config, business, pages, convenience, binding, attempt, wait, exc, observed, call_no>>

\* the caller calls the wrapped function again: nothing of the last call is kept
NewCall(c) ==
    /\ c \in active
    /\ bpc[c] \in {"none", "returned", "raised", "loop"}
    /\ pc[c] \in {"DONE", "FAILED"}
    /\ call_no[c] < MaxCalls
    /\ pc' = [pc EXCEPT ![c] = "START"]
    /\ attempt' = [attempt EXCEPT ![c] = 0]
    /\ wait' = [wait EXCEPT ![c] = 0]
    /\ exc' = [exc EXCEPT ![c] = NoError]
    /\ result' = [result EXCEPT ![c] = Pending]
    /\ invocations' = [invocations EXCEPT ![c] = 0]
    /\ outcomes' = [outcomes EXCEPT ![c] = << >>]
    /\ delays' = [delays EXCEPT ![c] = << >>]
    /\ slept' = [slept EXCEPT ![c] = 0]
    /\ events' = [events EXCEPT ![c] = << >>]
    /\ first_arg' = [first_arg EXCEPT ![c] = "unset"]
    /\ logger' = [logger EXCEPT ![c] = "unset"]
    /\ sinks' = [sinks EXCEPT ![c] = << >>]
    /\ passed' = [passed EXCEPT ![c] = << >>]
    /\ UNCHANGED <<policy, config, business, pages, convenience, call_no>>

\* the scenario of the specification: max_retries = 5, default error class
InitScenario ==
    /\ max_retries = 5
    /\ backoff_factor = 1
    /\ exceptions = {"HttpError"}
    /\ jitter \in BOOLEAN
    /\ func_name = "_call"
    /\ active = {1}
    /\ arg_kinds = {"plain"}
    /\ NoCallYet
    /\ NoBusiness
    /\ NoListing

Next ==
    \E c \in Callers :
        \/ Call(c)
        \/ FuncReturns(c)
        \/ FuncRaisesOther(c)
        \/ FuncRaisesExhausted(c)
        \/ FuncRaisesRetry(c)
        \/ SleepReturns(c)
        \/ SleepRaises(c)
        \/ NewCall(c)

Spec == Init /\ [][Next]_vars

\* Spec together with the max_retries = 5 scenario
SpecScenario == (Init \/ InitScenario) /\ [][Next]_vars

\* the call of func made by caller c returns or raises
InvocationEnds(c) ==
    \/ FuncReturns(c)
    \/ FuncRaisesOther(c)
    \/ FuncRaisesExhausted(c)
    \/ FuncRaisesRetry(c)

\* the time.sleep(wait) of caller c returns or raises
SleepEnds(c) == SleepReturns(c) \/ SleepRaises(c)

\* Spec where every invocation of func and every sleep comes to an end
LiveSpec ==
    /\ Init
    /\ [][Next]_vars
    /\ \A c \in Callers : WF_vars(InvocationEnds(c)) /\ WF_vars(SleepEnds(c))

\* two callers in flight at once on the same wrapped function
InitConc ==
    /\ max_retries \in {1, 2}
    /\ backoff_factor \in {-1, 1}
    /\ exceptions = {"HttpError"}
    /\ jitter \in BOOLEAN
    /\ func_name = "_call"
    /\ active = {1, 2}
    /\ arg_kinds = {"plain"}
    /\ NoCallYet
    /\ NoBusiness
    /\ NoListing

SpecConc == InitConc /\ [][Next]_vars

\* one caller passing every kind of first argument, call after call
InitLogger ==
    /\ max_retries \in {0, 2}
    /\ backoff_factor \in {-1, 1}
    /\ exceptions = {"HttpError"}
    /\ jitter = FALSE
    /\ func_name \in FuncNames
    /\ active = {1}
    /\ arg_kinds = ArgKinds
    /\ NoCallYet
    /\ NoBusiness
    /\ NoListing

SpecLogger == InitLogger /\ [][Next]_vars

\* decorations with a negative max_retries, next to those with one retry
InitUnvalidated ==
    /\ max_retries \in NegativeRetries \cup {1}
    /\ backoff_factor \in BackoffFactors
    /\ exceptions \in ExceptionTuples
    /\ jitter \in BOOLEAN
    /\ func_name = "_call"
    /\ active = {1}
    /\ arg_kinds = {"plain"}
    /\ NoCallYet
    /\ NoBusiness
    /\ NoListing

SpecUnvalidated == InitUnvalidated /\ [][Next]_vars

\* ---------------------------------------------------------- YoutubeManager
\* @retry_on_exception() with the defaults, as every use in YoutubeManager
InitManager ==
    /\ max_retries = 3
    /\ backoff_factor = 1
    /\ exceptions = {"HttpError"}
    /\ jitter = TRUE
    /\ func_name = "_call"
    /\ active = {1}
    /\ arg_kinds = {"plain"}
    /\ NoCallYet
    /\ method = [c \in Callers |-> "none"]
    /\ bpc = [c \in Callers |-> "idle"]
    /\ bresult = [c \in Callers |-> Pending]
    /\ NoListing

\* a method of YoutubeManager is called
Enter(c) ==
    /\ c \in active
    /\ bpc[c] \in {"idle", "returned", "raised"}
    /\ pc[c] = "START"
    /\ call_no[c] < MaxCalls
    /\ \E m \in Methods : method' = [method EXCEPT ![c] = m]
    /\ bpc' = [bpc EXCEPT ![c] = "running"]
    /\ bresult' = [bresult EXCEPT ![c] = Pending]
    /\ applied' = [applied EXCEPT ![c] = {}]
    /\ UNCHANGED <<policy, config, pages, outer, opc, oresult, target, found,
                   locals, observed, call_no, binding>>

\* self.yt_service.videos().rate(...).execute() called as such
DirectCall(c) ==
    /\ c \in active
    /\ bpc[c] = "running"
    /\ ~Wrapped(method[c])
    /\ pc[c] = "START"
    /\ call_no' = [call_no EXCEPT ![c] = @ + 1]
    /\ invocations' = [invocations EXCEPT ![c] = @ + 1]
    /\ pc' = [pc EXCEPT ![c] = "ATTEMPT"]
    /\ UNCHANGED <<policy, config, business, pages, convenience, binding, attempt, wait, exc, result,
                   outcomes, delays, slept, events>>

DirectReturns(c) ==
    /\ c \in active
    /\ bpc[c] = "running"
    /\ ~Wrapped(method[c])
    /\ pc[c] = "ATTEMPT"
    /\ \E v \in Values :
        /\ outcomes' = [outcomes EXCEPT ![c] = Append(@, Returned(v))]
        /\ result' = [result EXCEPT ![c] = Returned(v)]
    /\ pc' = [pc EXCEPT ![c] = "DONE"]
    /\ UNCHANGED <<policy, config, business, pages, convenience, binding, attempt, wait, exc,
                   invocations, delays, slept, events, call_no>>

DirectRaises(c) ==
    /\ c \in active
    /\ bpc[c] = "running"
    /\ ~Wrapped(method[c])
    /\ pc[c] = "ATTEMPT"
    /\ \E k \in RaisedKinds :
        /\ outcomes' = [outcomes EXCEPT ![c] = Append(@, Raised(OpError(k, invocations[c])))]
        /\ result' = [result EXCEPT ![c] = Raised(OpError(k, invocations[c]))]
    /\ pc' = [pc EXCEPT ![c] = "FAILED"]
    /\ UNCHANGED <<policy, config, business, pages, convenience, binding, attempt, wait, exc,
                   invocations, delays, slept, events, call_no>>

\* the remote call is over: the method returns, or lets the error through
Leave(c) ==
    /\ c \in active
    /\ bpc[c] = "running"
    /\ pc[c] \in {"DONE", "FAILED"}
    /\ LET m == method[c]
           r == result[c]
       IN IF r.tag = "return"
          THEN /\ bresult' = [bresult EXCEPT ![c] = Returned(OnSuccess(m, r.value))]
               /\ bpc' = [bpc EXCEPT ![c] = "returned"]
          ELSE IF Guarded(m) /\ IsSubclass(r.error.kind, "Exception")
          THEN /\ bresult' = [bresult EXCEPT ![c] = Returned(Empty(m))]
               /\ bpc' = [bpc EXCEPT ![c] = "returned"]
          ELSE /\ bresult' = [bresult EXCEPT ![c] = Raised(r.error)]
               /\ bpc' = [bpc EXCEPT ![c] = "raised"]
    /\ UNCHANGED <<policy, config, pages, convenience, locals, observed, call_no, binding, method>>

NextManager ==
    \E c \in Callers :
        \/ Enter(c)
        \/ Call(c)
        \/ FuncReturns(c)
        \/ FuncRaisesOther(c)
        \/ FuncRaisesExhausted(c)
        \/ FuncRaisesRetry(c)
        \/ SleepReturns(c)
        \/ DirectCall(c)
        \/ DirectReturns(c)
        \/ DirectRaises(c)
        \/ Leave(c)
        \/ NewCall(c)

SpecManager == InitManager /\ [][NextManager]_vars

\* ------------------------------------------------------------ the remote
\* the remote applies the insert of the invocation in flight, whatever the
\* response to it will be
RemoteApplies(c) ==
    /\ c \in active
    /\ bpc[c] = "running"
    /\ method[c] \in InsertMethods \cup {"post_comment"}
    /\ pc[c] = "ATTEMPT"
    /\ invocations[c] \notin applied[c]
    /\ applied' = [applied EXCEPT ![c] = @ \cup {invocations[c]}]
    /\ UNCHANGED <<policy, config, locals, observed, call_no, binding, business,
                   pages, outer, opc, oresult, target, found>>

NextRemote ==
    \E c \in Callers :
        \/ Enter(c)
        \/ Call(c)
        \/ RemoteApplies(c)
        \/ FuncReturns(c)
        \/ FuncRaisesOther(c)
        \/ FuncRaisesExhausted(c)
        \/ FuncRaisesRetry(c)
        \/ SleepReturns(c)
        \/ DirectCall(c)
        \/ DirectReturns(c)
        \/ DirectRaises(c)
        \/ Leave(c)
        \/ NewCall(c)

SpecRemote == InitManager /\ [][NextRemote]_vars

\* ------------------------------------------- listings and convenience methods
\* every page asked for in full: maxResults=50
RequestLimitFullPage(m, mr, its) == PageSize

\* request_limit = min(remaining, 50); get_playlist_items asks for 50
RequestLimit(m, mr, its) ==
    IF Bounded(m) THEN Min(mr - Count(its), PageSize) ELSE PageSize

\* a listing is called, as such or from a convenience method; the remote
\* holds n records, those at the positions t are the ones looked for
EnterListing(c) ==
    /\ c \in active
    /\ bpc[c] \in {"idle", "returned", "raised"}
    /\ opc[c] \in {"none", "returned", "raised"}
    /\ pc[c] = "START"
    /\ call_no[c] < MaxCalls
    /\ \E m \in ListingMethods, o \in OuterMethods \cup {"none"},
          mr \in MaxResultsValues, n \in RemoteTotals, t \in TargetSets :
        /\ o # "none" => m = ListingOf(o)
        /\ o = "none" => t = {}
        /\ t \subseteq 1 .. n
        /\ m = "get_playlist_items" => mr = 0
        /\ o = "unsubscribe_from_channel" => mr = 50
        /\ method' = [method EXCEPT ![c] = m]
        /\ outer' = [outer EXCEPT ![c] = o]
        /\ opc' = [opc EXCEPT ![c] = IF o = "none" THEN "none" ELSE "listing"]
        /\ max_results' = [max_results EXCEPT ![c] = mr]
        /\ remote_total' = [remote_total EXCEPT ![c] = n]
        /\ target' = [target EXCEPT ![c] = t]
        /\ IF EarlyReturn(m) /\ mr <= 0
           THEN /\ bpc' = [bpc EXCEPT ![c] = "returned"]
                /\ bresult' = [bresult EXCEPT ![c] = Returned(<< >>)]
           ELSE /\ bpc' = [bpc EXCEPT ![c] = "loop"]
                /\ bresult' = [bresult EXCEPT ![c] = Pending]
    /\ items' = [items EXCEPT ![c] = << >>]
    /\ next_page_token' = [next_page_token EXCEPT ![c] = NoToken]
    /\ requests' = [requests EXCEPT ![c] = << >>]
    /\ oresult' = [oresult EXCEPT ![c] = Pending]
    /\ found' = [found EXCEPT ![c] = NoId]
    /\ UNCHANGED <<policy, config, locals, observed, call_no, binding, applied>>

\* the test of the while loop, then the page request up to the call of _fetch_page
RequestPage(c) ==
    /\ c \in active
    /\ bpc[c] = "loop"
    /\ LET m == method[c] IN
       IF ~Bounded(m) \/ Count(items[c]) < max_results[c]
       THEN /\ pc[c] = "START"
            /\ requests' = [requests EXCEPT ![c] = Append(@,
                    [token |-> IF PassesToken(m) THEN next_page_token[c] ELSE NoToken,
                     limit |-> RequestLimit(m, max_results[c], items[c])])]
            /\ bpc' = [bpc EXCEPT ![c] = "fetching"]
            /\ UNCHANGED bresult
       ELSE /\ bresult' = [bresult EXCEPT ![c] = Returned(items[c])]
            /\ bpc' = [bpc EXCEPT ![c] = "returned"]
            /\ UNCHANGED requests
    /\ UNCHANGED <<policy, config, locals, observed, call_no, binding, method,
                   max_results, remote_total, items, next_page_token, convenience>>

\* _fetch_page is over: items.extend(...), next_page_token = ..., break or
\* loop; or the except branch
PageDone(c) ==
    /\ c \in active
    /\ bpc[c] = "fetching"
    /\ pc[c] \in {"DONE", "FAILED"}
    /\ LET m == method[c]
           r == result[c]
           resp == Respond(requests[c][Len(requests[c])], remote_total[c])
           got == IF resp.lo <= resp.hi
                  THEN Append(items[c], [lo |-> resp.lo, hi |-> resp.hi])
                  ELSE items[c]
       IN IF r.tag = "return" /\ r.value # "None"
          THEN /\ items' = [items EXCEPT ![c] = got]
               /\ next_page_token' = [next_page_token EXCEPT ![c] = resp.next]
               /\ IF resp.next = NoToken
                  THEN /\ bresult' = [bresult EXCEPT ![c] = Returned(got)]
                       /\ bpc' = [bpc EXCEPT ![c] = "returned"]
                  ELSE /\ bpc' = [bpc EXCEPT ![c] = "loop"]
                       /\ UNCHANGED bresult
          ELSE IF r.tag = "return" \/ IsSubclass(r.error.kind, "Exception")
          THEN /\ bresult' = [bresult EXCEPT ![c] =
                        Returned(IF KeepsPages(m) THEN items[c] ELSE << >>)]
               /\ bpc' = [bpc EXCEPT ![c] = "returned"]
               /\ UNCHANGED <<items, next_page_token>>
          ELSE /\ bresult' = [bresult EXCEPT ![c] = Raised(r.error)]
               /\ bpc' = [bpc EXCEPT ![c] = "raised"]
               /\ UNCHANGED <<items, next_page_token>>
    /\ UNCHANGED <<policy, config, locals, observed, call_no, binding, method,
                   max_results, remote_total, requests, convenience>>

\* get_playlist_item_id / get_subscription_id_for_channel on the listing's
\* result, then `if not id: return False`, else the call of the delete method
Lookup(c) ==
    /\ c \in active
    /\ opc[c] = "listing"
    /\ bpc[c] \in {"returned", "raised"}
    /\ IF bpc[c] = "raised"
       THEN /\ oresult' = [oresult EXCEPT ![c] = bresult[c]]
            /\ opc' = [opc EXCEPT ![c] = "raised"]
            /\ UNCHANGED <<found, business>>
       ELSE LET id == FirstMatch(bresult[c].value, target[c]) IN
            /\ found' = [found EXCEPT ![c] = id]
            /\ IF id = NoId
               THEN /\ oresult' = [oresult EXCEPT ![c] = Returned("False")]
                    /\ opc' = [opc EXCEPT ![c] = "returned"]
                    /\ UNCHANGED business
               ELSE /\ pc[c] = "START"
                    /\ method' = [method EXCEPT ![c] = DeleteOf(outer[c])]
                    /\ bpc' = [bpc EXCEPT ![c] = "running"]
                    /\ bresult' = [bresult EXCEPT ![c] = Pending]
                    /\ opc' = [opc EXCEPT ![c] = "deleting"]
                    /\ UNCHANGED oresult
    /\ UNCHANGED <<policy, config, locals, observed, call_no, binding, pages,
                   outer, target, applied>>

\* return self.delete_playlist_item(...) / self.delete_subscription(...)
LeaveOuter(c) ==
    /\ c \in active
    /\ opc[c] = "deleting"
    /\ bpc[c] \in {"returned", "raised"}
    /\ oresult' = [oresult EXCEPT ![c] = bresult[c]]
    /\ opc' = [opc EXCEPT ![c] = bpc[c]]
    /\ UNCHANGED <<policy, config, locals, observed, call_no, binding, business,
                   pages, outer, target, found, applied>>

\* channels[0] where channels is the dict get_user_channel returned
KeyError0 == [kind |-> "KeyError", key |-> 0]

\* get_liked_videos is called: `if max_results <= 0: return []`, else
\* channels = self.get_user_channel()
EnterLiked(c) ==
    /\ c \in active
    /\ bpc[c] \in {"idle", "returned", "raised"}
    /\ opc[c] \in {"none", "returned", "raised"}
    /\ pc[c] = "START"
    /\ call_no[c] < MaxCalls
    /\ \E mr \in MaxResultsValues :
        /\ max_results' = [max_results EXCEPT ![c] = mr]
        /\ IF mr <= 0
           THEN /\ opc' = [opc EXCEPT ![c] = "returned"]
                /\ oresult' = [oresult EXCEPT ![c] = Returned(<< >>)]
                /\ UNCHANGED business
           ELSE /\ opc' = [opc EXCEPT ![c] = "channel"]
                /\ oresult' = [oresult EXCEPT ![c] = Pending]
                /\ method' = [method EXCEPT ![c] = "get_user_channel"]
                /\ bpc' = [bpc EXCEPT ![c] = "running"]
                /\ bresult' = [bresult EXCEPT ![c] = Pending]
    /\ outer' = [outer EXCEPT ![c] = "get_liked_videos"]
    /\ remote_total' = [remote_total EXCEPT ![c] = 0]
    /\ items' = [items EXCEPT ![c] = << >>]
    /\ next_page_token' = [next_page_token EXCEPT ![c] = NoToken]
    /\ requests' = [requests EXCEPT ![c] = << >>]
    /\ target' = [target EXCEPT ![c] = {}]
    /\ found' = [found EXCEPT ![c] = NoId]
    /\ UNCHANGED <<policy, config, locals, observed, call_no, binding, applied>>

\* get_user_channel is over: `if not channels: return []`, else
\* liked_playlist_id = channels[0].get('likedPlaylist'), outside any try
LikedChannel(c) ==
    /\ c \in active
    /\ opc[c] = "channel"
    /\ bpc[c] \in {"returned", "raised"}
    /\ IF bpc[c] = "raised"
       THEN /\ oresult' = [oresult EXCEPT ![c] = bresult[c]]
            /\ opc' = [opc EXCEPT ![c] = "raised"]
       ELSE IF bresult[c].value = "{}"
       THEN /\ oresult' = [oresult EXCEPT ![c] = Returned(<< >>)]
            /\ opc' = [opc EXCEPT ![c] = "returned"]
       ELSE /\ oresult' = [oresult EXCEPT ![c] = Raised(KeyError0)]
            /\ opc' = [opc EXCEPT ![c] = "raised"]
    /\ UNCHANGED <<policy, config, locals, observed, call_no, binding, business,
                   pages, outer, target, found, applied>>

NextListing ==
    \E c \in Callers :
        \/ EnterListing(c)
        \/ EnterLiked(c)
        \/ RequestPage(c)
        \/ Call(c)
        \/ FuncReturns(c)
        \/ FuncRaisesOther(c)
        \/ FuncRaisesExhausted(c)
        \/ FuncRaisesRetry(c)
        \/ SleepReturns(c)
        \/ PageDone(c)
        \/ Lookup(c)
        \/ Leave(c)
        \/ LikedChannel(c)
        \/ LeaveOuter(c)
        \/ NewCall(c)

SpecListing == InitManager /\ [][NextListing]_vars

\* ------------------------------------------------------- shared vocabulary
\* the policies of the data model: max_retries non-negative, backoff_factor positive
ValidPolicy == max_retries >= 0 /\ backoff_factor > 0

Terminal(c) == pc[c] \in {"DONE", "FAILED"}

IsRetryableRaise(o) == o.tag = "raise" /\ Catches(exceptions, o.error.kind)

IsOtherRaise(o) == o.tag = "raise" /\ ~Catches(exceptions, o.error.kind)

\* every invocation made so far raised a retryable error
AlwaysRetryable(c) ==
    /\ Len(outcomes[c]) >= 1
    /\ \A i \in 1 .. Len(outcomes[c]) : IsRetryableRaise(outcomes[c][i])

RECURSIVE TwoToThe(_)
TwoToThe(n) == IF n <= 0 THEN 1 ELSE 2 * TwoToThe(n - 1)

\* backoff_factor * 2^(n-1), in hundredths
ExpectedDelay(n) == backoff_factor * TwoToThe(n - 1) * 100

Warnings(c) == SelectSeq(events[c], LAMBDA ev : ev.level = "WARNING")

\* ---------------------------------------------------------------------- C1
\* C1: under a policy with max_retries = r >= 0, an operation that raised a
\* retryable error on every invocation has been invoked exactly r + 1 times
\* when the call ends, and the call ends by raising MaxRetriesExceeded, not
\* the error of the operation.
C1_AlwaysFailingExhausts ==
    \A c \in Callers :
        (ValidPolicy /\ Terminal(c) /\ AlwaysRetryable(c)) =>
            /\ invocations[c] = max_retries + 1
            /\ Len(outcomes[c]) = max_retries + 1
            /\ result[c].tag = "raise"
            /\ result[c].error.kind = "MaxRetriesExceeded"
            /\ \A i \in 1 .. Len(outcomes[c]) : result[c].error # outcomes[c][i].error

C1_Witness ==
    \E c \in Callers :
        /\ ValidPolicy /\ max_retries = MaxRetriesBound
        /\ pc[c] = "FAILED" /\ AlwaysRetryable(c)
        /\ invocations[c] = MaxRetriesBound + 1

\* ---------------------------------------------------------------------- C2
\* C2: when the first invocation raises an error no retryable class
\* matches, the operation has been invoked exactly once, no delay was
\* executed and the wrapper raised that very error.
C2_NonRetryableFirst ==
    \A c \in Callers :
        (Len(outcomes[c]) >= 1 /\ IsOtherRaise(outcomes[c][1])) =>
            /\ pc[c] = "FAILED"
            /\ invocations[c] = 1
            /\ Len(outcomes[c]) = 1
            /\ delays[c] = << >> /\ slept[c] = 0
            /\ result[c] = Raised(outcomes[c][1].error)
            /\ result[c].error.kind # "MaxRetriesExceeded"

C2_Witness ==
    \E c \in Callers :
        /\ max_retries >= 2
        /\ exceptions = {"HttpError"}
        /\ pc[c] = "FAILED"
        /\ outcomes[c] = <<Raised(OpError("ValueError", 1))>>

\* ---------------------------------------------------------------------- C3
\* C3: with max_retries >= 0, in every state of a logical call the number
\* of invocations of the operation made so far is at most max_retries + 1.
C3_InvocationBudget ==
    \A c \in Callers :
        max_retries >= 0 => invocations[c] <= max_retries + 1

C3_Witness ==
    \E c \in Callers :
        /\ max_retries >= 1
        /\ invocations[c] = max_retries + 1
        /\ pc[c] = "ATTEMPT"

\* ---------------------------------------------------------------------- C4
\* C4: an operation that raised retryable errors on its first k - 1
\* invocations and returned v on invocation k has been invoked exactly k
\* times, k <= max_retries + 1, and the wrapper returned v.
C4_SuccessOnAttemptK ==
    \A c \in Callers :
        LET k == Len(outcomes[c]) IN
        (/\ k >= 1
         /\ outcomes[c][k].tag = "return"
         /\ \A i \in 1 .. k - 1 : IsRetryableRaise(outcomes[c][i])) =>
            /\ pc[c] = "DONE"
            /\ invocations[c] = k
            /\ max_retries >= 0 => k <= max_retries + 1
            /\ result[c] = Returned(outcomes[c][k].value)

C4_Witness ==
    \E c \in Callers :
        /\ max_retries = MaxRetriesBound
        /\ pc[c] = "DONE"
        /\ Len(outcomes[c]) = MaxRetriesBound + 1
        /\ result[c] = Returned("ok")

\* ---------------------------------------------------------------------- C5
\* C5: without jitter the n-th delay (slept before attempt n + 1) is
\* backoff_factor * 2^(n-1); when every invocation failed with a retryable
\* error the call ends with exactly max_retries delays and max_retries + 1
\* invocations, so max_retries = 3, backoff_factor = 1 gives [1, 2, 4].
C5_DelaysWithoutJitter ==
    \A c \in Callers :
        ~jitter =>
            /\ \A n \in 1 .. Len(delays[c]) : delays[c][n] = ExpectedDelay(n)
            /\ (ValidPolicy /\ Terminal(c) /\ AlwaysRetryable(c)) =>
                /\ Len(delays[c]) = max_retries
                /\ slept[c] = max_retries
                /\ invocations[c] = max_retries + 1
            /\ (/\ max_retries = 3 /\ backoff_factor = 1
                /\ Terminal(c) /\ AlwaysRetryable(c)) =>
                /\ delays[c] = <<100, 200, 400>>
                /\ invocations[c] = 4

C5_Witness ==
    \E c \in Callers :
        /\ ~jitter /\ max_retries = 3 /\ backoff_factor = 1
        /\ pc[c] = "FAILED" /\ AlwaysRetryable(c)
        /\ delays[c] = <<100, 200, 400>>

\* ---------------------------------------------------------------------- C6
\* C6: with jitter and a positive backoff_factor, whatever the random draw,
\* the n-th delay lies in [0.9, 1.1] * backoff_factor * 2^(n-1).
C6_DelaysWithJitter ==
    \A c \in Callers :
        (jitter /\ backoff_factor > 0) =>
            \A n \in 1 .. Len(delays[c]) :
                /\ 90 * ExpectedDelay(n) <= 100 * delays[c][n]
                /\ 100 * delays[c][n] <= 110 * ExpectedDelay(n)

C6_Witness ==
    \E c \in Callers :
        /\ jitter /\ backoff_factor = 2
        /\ Len(delays[c]) >= 3
        /\ 100 * delays[c][1] = 90 * ExpectedDelay(1)
        /\ 100 * delays[c][2] = 105 * ExpectedDelay(2)
        /\ 100 * delays[c][3] = 110 * ExpectedDelay(3)

\* ---------------------------------------------------------------------- C7
\* C7: with max_retries >= 0, the MaxRetriesExceeded raised by the wrapper
\* has as cause the error of the last, (max_retries + 1)-th, invocation and
\* a message with the name of the operation and the configured max_retries.
C7_ExhaustionCarriesLastError ==
    \A c \in Callers :
        (/\ max_retries >= 0
         /\ result[c].tag = "raise"
         /\ result[c].error.kind = "MaxRetriesExceeded") =>
            /\ Len(outcomes[c]) = max_retries + 1
            /\ outcomes[c][max_retries + 1].tag = "raise"
            /\ result[c].error.cause = outcomes[c][max_retries + 1].error
            /\ result[c].error.cause.at = max_retries + 1
            /\ result[c].error.msg.name = func_name
            /\ result[c].error.msg.retries = max_retries

C7_Witness ==
    \E c \in Callers :
        /\ max_retries = 2
        /\ func_name = "_fetch"
        /\ result[c].tag = "raise"
        /\ result[c].error.kind = "MaxRetriesExceeded"
        /\ outcomes[c][1].error.kind = "HttpError"
        /\ result[c].error.cause = OpError("ValueError", 3)

\* ---------------------------------------------------------------------- C8
\* C8: the wrapper returns a value only when the most recent invocation
\* returned that value; a call that ended otherwise (positive
\* backoff_factor) raised the non-retryable error of the last invocation or
\* MaxRetriesExceeded, and returned nothing.
C8_NoSwallowedFailure ==
    \A c \in Callers :
        LET k == Len(outcomes[c]) IN
        /\ result[c].tag = "return" =>
            /\ pc[c] = "DONE"
            /\ k >= 1
            /\ outcomes[c][k] = Returned(result[c].value)
        /\ pc[c] = "DONE" => result[c].tag = "return"
        /\ (pc[c] = "FAILED" /\ backoff_factor > 0) =>
            /\ result[c].tag = "raise"
            /\ k >= 1
            /\ outcomes[c][k].tag = "raise"
            /\ \/ /\ IsOtherRaise(outcomes[c][k])
                  /\ result[c].error = outcomes[c][k].error
               \/ /\ IsRetryableRaise(outcomes[c][k])
                  /\ result[c].error.kind = "MaxRetriesExceeded"

C8_Witness ==
    \E c \in Callers :
        /\ pc[c] = "FAILED"
        /\ backoff_factor > 0
        /\ Len(outcomes[c]) = 2
        /\ result[c] = Raised(OpError("KeyboardInterrupt", 2))

\* ---------------------------------------------------------------------- C9
\* C9: the state machine of a logical call has only the specified
\* transitions.  A retryable error at attempt n <= max_retries leads to
\* WAIT, and WAIT (positive backoff_factor) only to ATTEMPT(n + 1); a
\* retryable error at attempt n > max_retries leads to FAILED with
\* MaxRetriesExceeded; nothing of a call changes after DONE or FAILED (the
\* caller can only start a fresh call); WAIT is entered only that way.
CallState(c) ==
    <<pc[c], attempt[c], wait[c], result[c], invocations[c], outcomes[c],
      delays[c], slept[c], events[c]>>

C9_Step(c) ==
    LET k == Len(outcomes'[c])
        invoked == k = Len(outcomes[c]) + 1
        fresh == /\ pc'[c] = "START" /\ invocations'[c] = 0 /\ attempt'[c] = 0
                 /\ outcomes'[c] = << >> /\ delays'[c] = << >>
                 /\ slept'[c] = 0 /\ events'[c] = << >>
    IN
    /\ (/\ pc[c] = "ATTEMPT" /\ invoked /\ IsRetryableRaise(outcomes'[c][k])
        /\ attempt[c] <= max_retries) =>
            /\ pc'[c] = "WAIT"
            /\ attempt'[c] = attempt[c]
            /\ invocations'[c] = invocations[c]
    /\ (/\ pc[c] = "ATTEMPT" /\ invoked /\ IsRetryableRaise(outcomes'[c][k])
        /\ attempt[c] > max_retries) =>
            /\ pc'[c] = "FAILED"
            /\ result'[c].tag = "raise"
            /\ result'[c].error.kind = "MaxRetriesExceeded"
    /\ (pc[c] = "WAIT" /\ backoff_factor > 0) =>
            \/ CallState(c)' = CallState(c)
            \/ /\ pc'[c] = "ATTEMPT"
               /\ attempt'[c] = attempt[c] + 1
               /\ invocations'[c] = invocations[c] + 1
               /\ slept'[c] = slept[c] + 1
               /\ result'[c] = Pending
    /\ (pc'[c] = "WAIT" /\ pc[c] # "WAIT") =>
            /\ pc[c] = "ATTEMPT" /\ invoked
            /\ IsRetryableRaise(outcomes'[c][k])
            /\ attempt[c] <= max_retries
    /\ Terminal(c) => (CallState(c)' = CallState(c) \/ fresh)
    /\ pc[c] = "START" => pc'[c] \in {"START", "ATTEMPT"}
    /\ pc[c] = "ATTEMPT" => pc'[c] \in {"ATTEMPT", "WAIT", "DONE", "FAILED"}

C9_Transitions == [][\A c \in Callers : C9_Step(c)]_vars

C9_Witness ==
    \E c \in Callers :
        /\ ValidPolicy /\ max_retries >= 2
        /\ pc[c] = "FAILED"
        /\ result[c].error.kind = "MaxRetriesExceeded"
        /\ slept[c] = max_retries
        /\ call_no[c] = 2

\* --------------------------------------------------------------------- C10
\* C10: every retryable failure at an attempt n <= max_retries emits exactly
\* one warning event, before the wait, with the operation name, the error,
\* the computed wait and n / max_retries, 1 <= n <= max_retries; the number
\* of warnings equals the number of waits and, when the call has ended
\* (valid policy), invocations - 1.
C10_OneWarningPerRetry ==
    \A c \in Callers :
        LET W == Warnings(c)
            retried == {i \in 1 .. Len(outcomes[c]) :
                            IsRetryableRaise(outcomes[c][i]) /\ i <= max_retries}
        IN
        /\ Len(W) = Len(delays[c])
        /\ Len(W) = Cardinality(retried)
        /\ \A n \in 1 .. Len(W) :
            /\ n \in retried
            /\ n <= max_retries
            /\ W[n] = [level |-> "WARNING", name |-> func_name,
                       exc |-> outcomes[c][n].error, wait |-> delays[c][n],
                       attempt |-> n, max_retries |-> max_retries]
        /\ pc[c] = "WAIT" => (Len(W) = slept[c] + 1 /\ events[c][Len(events[c])] = W[Len(W)])
        /\ (pc[c] # "WAIT" /\ backoff_factor > 0) => Len(W) = slept[c]
        /\ (ValidPolicy /\ Terminal(c)) => Len(W) = invocations[c] - 1

C10_Witness ==
    \E c \in Callers :
        /\ ValidPolicy /\ jitter
        /\ pc[c] = "DONE"
        /\ invocations[c] = 3
        /\ Len(Warnings(c)) = 2
        /\ Warnings(c)[2].wait = 210 * backoff_factor

\* --------------------------------------------------------------------- C11
Errors(c) == SelectSeq(events[c], LAMBDA ev : ev.level = "ERROR")

\* C11: on exhaustion (valid policy) the wrapper emits exactly one
\* error-level event and the attempt count it reports equals the number of
\* invocations of the operation made before giving up.
C11_ErrorEventCountsInvocations ==
    \A c \in Callers :
        (/\ ValidPolicy
         /\ result[c].tag = "raise"
         /\ result[c].error.kind = "MaxRetriesExceeded") =>
            /\ Len(Errors(c)) = 1
            /\ Errors(c)[1].attempts = invocations[c]

\* --------------------------------------------------------------------- C12
\* C12: a call that returned emitted no error-level event; one that returned
\* on the first attempt emitted no event and executed no wait; one that
\* failed j times with a retryable error and then returned emitted exactly j
\* warnings and nothing else.  With max_retries = 5, two failures and then
\* "ok": 3 invocations, "ok" returned, 2 warnings, 0 errors.
C12_SuccessEmitsOnlyWarnings ==
    \A c \in Callers :
        /\ pc[c] = "DONE" =>
            /\ Len(Errors(c)) = 0
            /\ Len(Warnings(c)) = Len(outcomes[c]) - 1
            /\ Len(events[c]) = Len(outcomes[c]) - 1
        /\ (pc[c] = "DONE" /\ invocations[c] = 1) =>
            /\ events[c] = << >>
            /\ delays[c] = << >>
            /\ slept[c] = 0
        /\ (/\ max_retries = 5
            /\ Len(outcomes[c]) = 3
            /\ IsRetryableRaise(outcomes[c][1])
            /\ IsRetryableRaise(outcomes[c][2])
            /\ outcomes[c][3] = Returned("ok")) =>
            /\ pc[c] = "DONE"
            /\ invocations[c] = 3
            /\ result[c] = Returned("ok")
            /\ Len(Warnings(c)) = 2
            /\ Len(Errors(c)) = 0

C12_Witness ==
    \E c \in Callers :
        /\ max_retries = 5
        /\ pc[c] = "DONE"
        /\ outcomes[c] = <<Raised(OpError("HttpError", 1)),
                          Raised(OpError("HttpError", 2)), Returned("ok")>>
        /\ Len(Warnings(c)) = 2

\* --------------------------------------------------------------------- C13
Reported(c) == bpc[c] \in {"returned", "raised"}

\* C13: every remote call of YoutubeManager goes through the retry wrapper:
\* when the remote call of a method raised HttpError on every invocation,
\* the method reports failure only after max_retries retries with backoff.
C13_EveryRemoteCallRetried ==
    \A c \in Callers :
        (Reported(c) /\ AlwaysRetryable(c)) =>
            /\ invocations[c] = max_retries + 1
            /\ slept[c] = max_retries

\* --------------------------------------------------------------------- C14
\* C14: every method of YoutubeManager catches a failure of its remote call
\* (MaxRetriesExceeded or another Exception) and returns an empty result
\* instead of raising.
C14_FailureGivesEmptyResult ==
    \A c \in Callers :
        (/\ Reported(c)
         /\ result[c].tag = "raise"
         /\ result[c].error.kind \in {"MaxRetriesExceeded", "HttpError", "ValueError"}) =>
            /\ bpc[c] = "returned"
            /\ bresult[c].tag = "return"
            /\ bresult[c].value \in {"{}", "[]", "False", "None"}

\* --------------------------------------------------------------------- C15
\* what a call that ran alone and saw the outcomes os gives back
AloneResult(os) ==
    LET last == os[Len(os)] IN
    IF last.tag = "return" THEN last
    ELSE IF last.error.kind \notin exceptions THEN last
    ELSE Raised(MaxRetriesExceeded(func_name, max_retries, last.error))

\* caller c stands where a call running alone with its outcomes would stand
C15_Alone(c) ==
    /\ invocations[c] <= max_retries + 1
    /\ pc[c] # "START" => attempt[c] = invocations[c]
    /\ pc[c] = "START" => delays[c] = << >>
    /\ pc[c] = "WAIT" => Len(delays[c]) = attempt[c]
    /\ pc[c] \in {"ATTEMPT", "DONE", "FAILED"} => Len(delays[c]) = attempt[c] - 1
    /\ ~jitter => \A i \in 1 .. Len(delays[c]) : delays[c][i] = ExpectedDelay(i)
    /\ jitter => \A i \in 1 .. Len(delays[c]) :
            /\ 10 * delays[c][i] >= 9 * ExpectedDelay(i)
            /\ 10 * delays[c][i] <= 11 * ExpectedDelay(i)
    /\ Terminal(c) =>
            /\ result[c] = AloneResult(outcomes[c])
            /\ (result[c].tag = "raise" /\ result[c].error.kind = "MaxRetriesExceeded") =>
                    Len(outcomes[c]) = max_retries + 1

\* a step of caller c changes nothing that belongs to another caller
C15_OwnState(c) ==
    (<<pc[c], attempt[c], invocations[c]>>' # <<pc[c], attempt[c], invocations[c]>>) =>
        \A d \in Callers \ {c} :
            /\ <<pc[d], attempt[d], wait[d], exc[d], result[d]>>'
                    = <<pc[d], attempt[d], wait[d], exc[d], result[d]>>
            /\ <<invocations[d], outcomes[d], delays[d], slept[d], events[d]>>'
                    = <<invocations[d], outcomes[d], delays[d], slept[d], events[d]>>

\* C15: of two calls of the same wrapped function in flight at once, under
\* every interleaving, each keeps its own attempt counter and delay schedule:
\* each invokes its operation at most max_retries + 1 times and has the
\* result and (jitter aside) the delays it would have when run alone, and no
\* step of one call changes the state of the other.
C15_CallsIndependent ==
    /\ [](ValidPolicy => \A c \in Callers : C15_Alone(c))
    /\ [][\A c \in Callers : C15_OwnState(c)]_vars

\* both calls in flight at once, each waiting at its own attempt
C15_Witness ==
    /\ active = {1, 2}
    /\ ValidPolicy
    /\ max_retries = 2
    /\ pc[1] = "WAIT" /\ attempt[1] = 2 /\ Len(delays[1]) = 2
    /\ pc[2] = "WAIT" /\ attempt[2] = 1 /\ Len(delays[2]) = 1

\* --------------------------------------------------------------------- C16
\* C16: attempt state does not survive a logical call: a second or later
\* call of the same wrapped function, whatever the call before it did,
\* starts at attempt 1 with no delay made, has the full budget of
\* max_retries retries, and its first delay is backoff_factor.
C16_FreshAttemptState ==
    \A c \in Callers :
        (call_no[c] >= 2 /\ pc[c] # "START") =>
            /\ attempt[c] = slept[c] + 1
            /\ (pc[c] = "ATTEMPT" /\ slept[c] = 0) =>
                    /\ attempt[c] = 1
                    /\ delays[c] = << >>
                    /\ events[c] = << >>
            /\ (~jitter /\ Len(delays[c]) >= 1) => delays[c][1] = backoff_factor * 100
            /\ (/\ ValidPolicy
                /\ result[c].tag = "raise"
                /\ result[c].error.kind = "MaxRetriesExceeded") =>
                    /\ invocations[c] = max_retries + 1
                    /\ Len(delays[c]) = max_retries

\* a second call that used its whole budget
C16_Witness ==
    \E c \in Callers :
        /\ call_no[c] = 2
        /\ max_retries = 2 /\ backoff_factor = 1 /\ ~jitter
        /\ pc[c] = "FAILED"
        /\ result[c].tag = "raise"
        /\ result[c].error.kind = "MaxRetriesExceeded"
        /\ invocations[c] = 3
        /\ delays[c] = <<100, 200>>

\* --------------------------------------------------------------------- C17
\* the sink the first argument a calls for
ExpectedSink(a) ==
    IF a = "inst_A" THEN "logger_A"
    ELSE IF a = "inst_B" THEN "logger_B"
    ELSE "module_logger"

\* C17: the sink of the wrapper's events is resolved at the start of each
\* logical call from that call's first positional argument and used for
\* every event of the call: the argument's logger if it has one that is not
\* None, the module's logger otherwise (no argument, no attribute, None);
\* a later call resolves again from its own argument.
C17_SinkResolvedPerCall ==
    \A c \in Callers :
        pc[c] # "START" =>
            /\ logger[c] = ExpectedSink(first_arg[c])
            /\ Len(sinks[c]) = Len(events[c])
            /\ \A i \in 1 .. Len(sinks[c]) : sinks[c][i] = ExpectedSink(first_arg[c])

\* a second call on an instance with its own logger: two warnings and the
\* error event all went to that logger
C17_Witness ==
    \E c \in Callers :
        /\ call_no[c] = 2
        /\ first_arg[c] = "inst_B"
        /\ pc[c] = "FAILED"
        /\ Len(Warnings(c)) = 2
        /\ Len(events[c]) = 3
        /\ sinks[c] = <<"logger_B", "logger_B", "logger_B">>

\* --------------------------------------------------------------------- C18
\* the classes an error of kind k is an instance of
KindsOf(k) ==
    IF k = "KeyboardInterrupt" THEN {"KeyboardInterrupt", "BaseException"}
    ELSE {k, "Exception", "BaseException"}

\* the kind of the error is in the configured set
InRetryableSet(k) == KindsOf(k) \cap exceptions # {}

\* C18: whether a failure is retried depends only on membership of its kind
\* in the configured set: a failure whose kind is in the set is followed by
\* a delay while the budget lasts and by MaxRetriesExceeded once it is used
\* up, a failure whose kind is not in the set propagates as it is; with the
\* empty set every failure propagates after one invocation and
\* MaxRetriesExceeded is never raised.
C18_RetriedIffInSet ==
    \A c \in Callers :
        /\ \A i \in 1 .. Len(outcomes[c]) :
            outcomes[c][i].tag = "raise" =>
                LET k == outcomes[c][i].error.kind
                    retried == Len(delays[c]) >= i
                    last == i = Len(outcomes[c]) /\ pc[c] = "FAILED"
                IN  /\ retried => InRetryableSet(k)
                    /\ ~InRetryableSet(k) => last /\ result[c] = outcomes[c][i]
                    /\ (InRetryableSet(k) /\ i <= max_retries) => retried
                    /\ (InRetryableSet(k) /\ i > max_retries) =>
                            /\ last
                            /\ result[c].tag = "raise"
                            /\ result[c].error.kind = "MaxRetriesExceeded"
        /\ exceptions = {} =>
            /\ invocations[c] <= 1
            /\ delays[c] = << >>
            /\ result[c].tag = "raise" => result[c].error.kind # "MaxRetriesExceeded"

\* with ValueError configured next to HttpError: a ValueError was retried,
\* then a KeyboardInterrupt propagated
C18_Witness ==
    \E c \in Callers :
        /\ exceptions = {"HttpError", "ValueError"}
        /\ Len(outcomes[c]) = 2
        /\ outcomes[c][1] = Raised(OpError("ValueError", 1))
        /\ outcomes[c][2] = Raised(OpError("KeyboardInterrupt", 2))
        /\ Len(delays[c]) = 1
        /\ pc[c] = "FAILED"
        /\ result[c] = Raised(OpError("KeyboardInterrupt", 2))

\* --------------------------------------------------------------------- C19
\* C19: under a policy of the data model (max_retries >= 0, backoff_factor
\* positive, jitter on or off) every delay the wrapper computes and sleeps
\* for, at every attempt, is >= 0, so that no sleep is refused.
C19_DelayNonNegative ==
    ValidPolicy =>
        \A c \in Callers :
            /\ wait[c] >= 0
            /\ \A i \in 1 .. Len(delays[c]) : delays[c][i] >= 0
            /\ result[c] # Raised(SleepError)

\* three jittered delays slept, the first with the lowest draw
C19_Witness ==
    \E c \in Callers :
        /\ ValidPolicy
        /\ jitter
        /\ backoff_factor = 1
        /\ max_retries = MaxRetriesBound
        /\ Len(delays[c]) = 3
        /\ delays[c][1] = 90
        /\ slept[c] = 3

\* --------------------------------------------------------------------- C20
\* C20: every logical call of a wrapped operation, once begun, eventually
\* ends in DONE or FAILED, whatever max_retries and whatever the operation
\* does, provided each invocation of the operation and each sleep ends.
C20_Terminates ==
    \A c \in Callers : (pc[c] \in {"ATTEMPT", "WAIT"}) ~> Terminal(c)

\* the longest call has ended: every retry of the largest budget was used
C20_Witness ==
    \E c \in Callers :
        /\ max_retries = MaxRetriesBound
        /\ jitter
        /\ Terminal(c)
        /\ slept[c] = max_retries
        /\ Len(outcomes[c]) = max_retries + 1

\* --------------------------------------------------------------------- C21
\* C21: the wrapped operation has the contract of the original: every
\* invocation of one logical call, the first and each retry, gets the
\* arguments the caller passed, and the value the call returns is the value
\* the operation returned, unchanged.
C21_SameArgumentsSameValue ==
    \A c \in Callers :
        pc[c] # "START" =>
            /\ Len(passed[c]) = invocations[c]
            /\ \A i \in 1 .. Len(passed[c]) : passed[c][i] = first_arg[c]
            /\ pc[c] = "DONE" =>
                    /\ outcomes[c][Len(outcomes[c])].tag = "return"
                    /\ result[c] = outcomes[c][Len(outcomes[c])]

\* a call on an instance that succeeded at its third invocation
C21_Witness ==
    \E c \in Callers :
        /\ first_arg[c] = "inst_A"
        /\ passed[c] = <<"inst_A", "inst_A", "inst_A">>
        /\ pc[c] = "DONE"
        /\ result[c] = Returned("ok")

\* --------------------------------------------------------------------- C22
\* C22: a non-retryable error raised at attempt k, also after k - 1
\* retryable failures, ends the call at once: the operation has been invoked
\* exactly k times, the error itself propagates (not MaxRetriesExceeded), no
\* wait follows it and the wrapper emits no event for it: the k - 1 warnings
\* of the retries before it are all there is.
C22_NonRetryableAtAnyAttempt ==
    \A c \in Callers :
        \A k \in 1 .. Len(outcomes[c]) :
            (outcomes[c][k].tag = "raise" /\ ~InRetryableSet(outcomes[c][k].error.kind)) =>
                /\ k = Len(outcomes[c])
                /\ k <= max_retries + 1 \/ k = 1
                /\ pc[c] = "FAILED"
                /\ invocations[c] = k
                /\ result[c] = outcomes[c][k]
                /\ Len(delays[c]) = k - 1
                /\ slept[c] = k - 1
                /\ Len(events[c]) = k - 1
                /\ \A i \in 1 .. Len(events[c]) : events[c][i].level = "WARNING"

\* a ValueError at the third attempt, after two retried HttpErrors
C22_Witness ==
    \E c \in Callers :
        /\ exceptions = {"HttpError"}
        /\ outcomes[c] = <<Raised(OpError("HttpError", 1)),
                          Raised(OpError("HttpError", 2)),
                          Raised(OpError("ValueError", 3))>>
        /\ pc[c] = "FAILED"
        /\ result[c] = Raised(OpError("ValueError", 3))
        /\ Len(events[c]) = 2

\* --------------------------------------------------------------------- C30
\* C30: max_retries is not validated: with any max_retries < 0 the operation
\* is still invoked exactly once, and if that invocation raises a retryable
\* error the call raises MaxRetriesExceeded at once, with no wait and no
\* warning event.
C30_NegativeMaxRetries ==
    max_retries < 0 =>
        \A c \in Callers :
            /\ invocations[c] <= 1
            /\ pc[c] # "START" => invocations[c] = 1
            /\ pc[c] # "WAIT"
            /\ delays[c] = << >>
            /\ slept[c] = 0
            /\ Warnings(c) = << >>
            /\ (/\ Len(outcomes[c]) = 1
                /\ outcomes[c][1].tag = "raise"
                /\ InRetryableSet(outcomes[c][1].error.kind)) =>
                    /\ pc[c] = "FAILED"
                    /\ result[c].tag = "raise"
                    /\ result[c].error.kind = "MaxRetriesExceeded"
                    /\ result[c].error.cause = outcomes[c][1].error

\* max_retries = -3: one invocation, then MaxRetriesExceeded
C30_Witness ==
    \E c \in Callers :
        /\ max_retries = -3
        /\ pc[c] = "FAILED"
        /\ invocations[c] = 1
        /\ outcomes[c] = <<Raised(OpError("HttpError", 1))>>
        /\ result[c].error.kind = "MaxRetriesExceeded"
        /\ Len(Errors(c)) = 1

\* --------------------------------------------------------------------- C23
\* the listings that take max_results
BoundedListings ==
    {"get_user_playlists", "get_comments", "list_subscriptions",
     "search_videos", "search_playlist"}

\* C23: in a bounded paginated listing each page request asks for a limit L
\* with 1 <= L <= min(50, max_results - records collected so far), so that
\* with a remote that returns at most L items per page the listing returns
\* at most max_results records; with max_results <= 0 no page is requested
\* and the result is empty.
C23_PageLimitWithinBudget ==
    \A c \in Callers :
      /\ outer[c] = "get_liked_videos" =>
            /\ requests[c] = << >>
            /\ opc[c] = "returned" => Count(oresult[c].value) = 0
            /\ max_results[c] <= 0 => opc[c] = "returned" /\ invocations[c] = 0
      /\ (outer[c] # "get_liked_videos" /\ method[c] \in BoundedListings) =>
            /\ bpc[c] = "fetching" =>
                    LET L == requests[c][Len(requests[c])].limit IN
                    /\ 1 <= L
                    /\ L <= 50
                    /\ L <= max_results[c] - Count(items[c])
            /\ (bpc[c] = "returned" /\ max_results[c] > 0) =>
                    Count(bresult[c].value) <= max_results[c]
            /\ max_results[c] <= 0 =>
                    /\ requests[c] = << >>
                    /\ bpc[c] \in {"loop", "returned"}
                    /\ bpc[c] = "returned" => bresult[c] = Returned(<< >>)

\* 60 comments asked of a remote holding 120: a page of 50, then one of 10
C23_Witness ==
    \E c \in Callers :
        /\ method[c] = "get_comments"
        /\ max_results[c] = 60
        /\ remote_total[c] = 120
        /\ requests[c] = <<[token |-> NoToken, limit |-> 50],
                          [token |-> Token(50), limit |-> 10]>>
        /\ bpc[c] = "returned"
        /\ Count(bresult[c].value) = 60

\* --------------------------------------------------------------------- C24
\* C24: get_liked_videos(max_results) with max_results > 0, when the lookup
\* of the user's channel succeeded and every remote call succeeded, fetches
\* pages of the liked playlist and returns its records without raising.
C24_LikedVideosListed ==
    \A c \in Callers :
        (/\ outer[c] = "get_liked_videos"
         /\ max_results[c] > 0
         /\ opc[c] \in {"returned", "raised"}
         /\ outcomes[c] = <<Returned("ok")>>
         /\ bresult[c] = Returned("record")) =>
            /\ opc[c] = "returned"
            /\ oresult[c].tag = "return"
            /\ requests[c] # << >>

\* --------------------------------------------------------------------- C25
\* C25: when the user is subscribed to the channel and the remote calls
\* succeed, however many subscriptions the user has, the lookup of
\* get_subscription_id_for_channel gives the subscription's id, and
\* unsubscribe_from_channel then issues the delete and returns True.
C25_SubscriptionFound ==
    \A c \in Callers :
        (/\ outer[c] = "unsubscribe_from_channel"
         /\ target[c] # {}
         /\ opc[c] = "returned"
         /\ result[c] = Returned("ok")) =>
            /\ found[c] # NoId
            /\ method[c] = "delete_subscription"
            /\ oresult[c] = Returned("True")

\* --------------------------------------------------------------------- C26
\* the remote positions the pages in its hold
Listed(its) == UNION {its[i].lo .. its[i].hi : i \in 1 .. Len(its)}

\* C26: remove_video_from_playlist issues a delete only after finding an
\* item with the video in the listed playlist: with no match among the
\* items listed it returns False and no delete call is made; with matches it
\* calls delete for one item, the first match in listing order, and returns
\* True if and only if that delete succeeded.
C26_DeleteOnlyFirstMatch ==
    \A c \in Callers :
        outer[c] = "remove_video_from_playlist" =>
            LET matches == target[c] \cap Listed(items[c]) IN
            /\ method[c] = "delete_playlist_item" =>
                    /\ opc[c] \in {"deleting", "returned", "raised"}
                    /\ matches # {}
                    /\ found[c] # NoId
                    /\ found[c].of \in matches
                    /\ \A p \in matches : found[c].of <= p
            /\ (opc[c] = "returned" /\ matches = {}) =>
                    /\ found[c] = NoId
                    /\ method[c] = "get_playlist_items"
                    /\ oresult[c] = Returned("False")
            /\ (opc[c] = "returned" /\ matches # {}) =>
                    /\ method[c] = "delete_playlist_item"
                    /\ result[c].tag = "return" => oresult[c] = Returned("True")
                    /\ result[c].tag = "raise" => oresult[c] = Returned("False")
            /\ opc[c] = "listing" => method[c] = "get_playlist_items"

\* two items of the playlist hold the video: the first was deleted
C26_Witness ==
    \E c \in Callers :
        /\ outer[c] = "remove_video_from_playlist"
        /\ target[c] = {2, 3}
        /\ found[c] = Id(2)
        /\ method[c] = "delete_playlist_item"
        /\ pc[c] = "DONE"
        /\ opc[c] = "returned"
        /\ oresult[c] = Returned("True")

\* --------------------------------------------------------------------- C27
\* C27: in every paginated listing each page request after the first
\* carries the nextPageToken of the response before it, so no page is
\* fetched twice and the records collected are a duplicate-free prefix of
\* the remote sequence.
C27_PagesChained ==
    \A c \in Callers :
        method[c] \in ListingMethods =>
            /\ \A i \in 1 .. Len(requests[c]) :
                    requests[c][i].token =
                        (IF i = 1 THEN NoToken ELSE Token(items[c][i - 1].hi))
            /\ \A i \in 1 .. Len(items[c]) :
                    items[c][i].lo = (IF i = 1 THEN 1 ELSE items[c][i - 1].hi + 1)

\* --------------------------------------------------------------------- C28
\* C28: when a page fetch fails for good after at least one page was
\* fetched, a paginated listing returns the records of the pages it has,
\* rather than discarding them.
C28_FetchedPagesKept ==
    \A c \in Callers :
        (/\ method[c] \in ListingMethods
         /\ bpc[c] = "returned"
         /\ items[c] # << >>
         /\ result[c].tag = "raise") =>
            bresult[c] = Returned(items[c])

\* --------------------------------------------------------------------- C29
\* C29: a mutating call takes effect at most once on the remote: for one
\* call of create_playlist, update_playlist, add_video_to_playlist,
\* subscribe_to_channel or post_comment at most one insert is applied, also
\* when the remote applied a request whose response came back as a
\* retryable error and the wrapper sent the request again.
C29_InsertAppliedAtMostOnce ==
    \A c \in Callers : Cardinality(applied[c]) <= 1

====
